---- MODULE Spec2Model ----
(***************************************************************************)
(* A model of the OCI distribution client of                               *)
(* crates/oci-distribution/src/lib.rs: the Client with its single token    *)
(* slot and its three operations version, auth and pull_manifest, each     *)
(* split at the points where the code awaits the network.                  *)
(*                                                                         *)
(* Conventions.  An Option<T> is a sequence of length 0 (None) or 1        *)
(* (Some(x) = <<x>>).  Text whose bytes the code inspects or concatenates  *)
(* (tokens, header values) is a sequence of byte values; text the code     *)
(* only passes along (hosts, realms, error codes) is a string.             *)
(***************************************************************************)
EXTENDS Integers, Sequences, FiniteSets, TLC

VARIABLES
    token,        \* Client.token: Option<RegistryToken>
    pc,           \* where the one caller of the Client stands
    call,         \* the operation in progress or last finished, and its arguments
    sent,         \* the requests that call has sent, in order
    rcvd,         \* the responses that call has received, in order
    result,       \* what that call returned
    tokenBefore,  \* history: the token store when that call began
    granted,      \* history: every token decoded from a 200 token response
    lastGranted,  \* history: the token of the latest such response
    peer          \* a pull_manifest of a second task on the same Client, if one
                  \* is in progress: its image and the token it read

vars == <<token, pc, call, sent, rcvd, result, tokenBefore, granted, lastGranted, peer>>

(***************************************************************************)
(* Bounds of the model.                                                    *)
(***************************************************************************)
\* longest list of challenges in one WWW-Authenticate header value
MaxChallenges == 2
\* longest `errors` list of an error envelope
MaxErrors == 2

None == << >>
Some(x) == <<x>>
IsSome(o) == Len(o) = 1
Range(s) == { s[i] : i \in 1..Len(s) }

(***************************************************************************)
(* Program constants.                                                      *)
(***************************************************************************)
OCI_VERSION_KEY == "Docker-Distribution-Api-Version"
StatusOK == 200
AcceptValue == "application/vnd.docker.distribution.manifest.v2+json,application/vnd.docker.distribution.manifest.list.v2+json"
\* the bytes of "Bearer "
BearerPrefix == <<66, 101, 97, 114, 101, 114, 32>>

(***************************************************************************)
(* The inputs: what callers pass and what a registry may answer.           *)
(***************************************************************************)
\* "abc", "xyz", and "a\nb": a JSON string may hold any character
TokAbc == <<97, 98, 99>>
TokXyz == <<120, 121, 122>>
TokCtl == <<97, 10, 98>>
\* "registry/2.0", and a value with an obs-text byte (0xE9)
VerRegistry20 == <<114, 101, 103, 105, 115, 116, 114, 121, 47, 50, 46, 48>>
VerOpaque == <<114, 233>>
VersionValues == { VerRegistry20, VerOpaque }

Hosts == { "a.io", "b.io" }
Images == { [registry |-> "a.io", repository |-> "hello-wasm", tag |-> "v1"],
            [registry |-> "b.io", repository |-> "app", tag |-> "v1"] }

\* status codes a response may carry, one or more of each class
ProbeStatuses == { 200, 401 }
VersionStatuses == { 101, 200, 204, 301, 401, 404, 500 }
TokenStatuses == { 200, 201, 403, 500 }
ManifestStatuses == { 101, 200, 201, 204, 301, 400, 401, 404, 499, 500, 503, 599, 600 }

(***************************************************************************)
(* Response bodies.  A body is its text, and, when the text is a JSON      *)
(* object, the members of that object the client's types read.             *)
(***************************************************************************)
Body(text, json, at, ei, ia, errs, sv, ly) ==
    [ text |-> text, json |-> json, access_token |-> at, expires_in |-> ei,
      issued_at |-> ia, errors |-> errs, schema_version |-> sv, layers |-> ly ]

TextBody(t) == Body(t, FALSE, None, None, None, None, None, None)
TokenBody(t, at, ei, ia) == Body(t, TRUE, Some(at), ei, ia, None, None, None)
EnvelopeBody(t, errs) == Body(t, TRUE, None, None, None, Some(errs), None, None)
ManifestBody(t, sv, ly) == Body(t, TRUE, None, None, None, None, Some(sv), Some(ly))

ErrorCodes == { "MANIFEST_UNKNOWN", "UNAUTHORIZED" }
ErrorLists == UNION { [1..n -> ErrorCodes] : n \in 0..MaxErrors }

TokenBodies ==
    { TokenBody("{access_token:abc}", TokAbc, None, None),
      TokenBody("{access_token:xyz,expires_in:300,issued_at:t0}", TokXyz, Some(300), Some("t0")),
      TokenBody("{access_token:a\\nb}", TokCtl, None, None),
      Body("{expires_in:300}", TRUE, None, Some(300), None, None, None, None),
      TextBody("forbidden") }

ManifestBodies ==
    { ManifestBody("{schemaVersion:2,layers:[l1]}", 2, <<"l1">>),
      Body("{schemaVersion:2}", TRUE, None, None, None, None, Some(2), None),
      TextBody("not json") }
    \cup { EnvelopeBody("{errors:[..]}", e) : e \in ErrorLists }

(***************************************************************************)
(* WWW-Authenticate header values.                                         *)
(***************************************************************************)
Fields(realm, service, scope) ==
    [ token68 |-> FALSE, realm |-> realm, service |-> service, scope |-> scope ]
Token68 == [ token68 |-> TRUE, realm |-> None, service |-> None, scope |-> None ]
Chal(scheme, raw) == [ scheme |-> scheme, raw |-> raw ]

Challenges ==
    { Chal("Basic", Fields(Some("registry"), None, None)),
      Chal("Bearer", Token68),
      Chal("Bearer", Fields(Some("https://auth.a.io/token"), Some("a.io"), Some("repository:x:push"))),
      Chal("Bearer", Fields(Some("https://auth.b.io/token"), Some("b.io"), None)),
      Chal("Bearer", Fields(Some("https://auth.a.io/token"), None, None)),
      Chal("Bearer", Fields(None, Some("a.io"), None)),
      Chal("Bearer", Fields(None, None, None)) }

ChallengeLists == UNION { [1..n -> Challenges] : n \in 1..MaxChallenges }

\* a header value is a list of challenges, or bytes the grammar rejects
WwwValues ==
    { [ wellformed |-> TRUE, challenges |-> cs ] : cs \in ChallengeLists }
    \cup { [ wellformed |-> FALSE, challenges |-> << >> ] }

Response(status, version, www, body) ==
    [ status |-> status, version |-> version, www |-> www, body |-> body ]

\* a response's body is None when the transport fails while it is read
VersionResponses ==
    { Response(s, v, None, Some(TextBody(""))) :
        s \in VersionStatuses, v \in {None} \cup { Some(x) : x \in VersionValues } }
ProbeResponses ==
    { Response(s, None, w, Some(TextBody(""))) :
        s \in ProbeStatuses, w \in {None} \cup { Some(x) : x \in WwwValues } }
TokenResponses ==
    { Response(s, None, None, b) :
        s \in TokenStatuses, b \in {None} \cup { Some(x) : x \in TokenBodies } }
ManifestResponses ==
    { Response(s, None, None, b) :
        s \in ManifestStatuses, b \in {None} \cup { Some(x) : x \in ManifestBodies } }

(***************************************************************************)
(* Pure functions of the client and of the conversions it calls.           *)
(***************************************************************************)
\* HeaderValue::to_str (line 56): only visible ASCII and tab convert
IsVisibleAscii(b) == (b >= 32 /\ b < 127) \/ b = 9
ToStr(v) == IF \A i \in 1..Len(v) : IsVisibleAscii(v[i]) THEN Some(v) ELSE None

\* str::parse::<HeaderValue> (line 124): control bytes and DEL are rejected
IsValidHeaderByte(b) == (b >= 32 /\ b # 127) \/ b = 9
ParseHeaderValue(s) == IF \A i \in 1..Len(s) : IsValidHeaderByte(s[i]) THEN Some(s) ELSE None

\* RegistryToken and its serde decoding: access_token is required, the two
\* Option members default to None
RegistryToken(at, ei, ia) == [ access_token |-> at, expires_in |-> ei, issued_at |-> ia ]
DecodeRegistryToken(b) ==
    IF b.json /\ IsSome(b.access_token)
    THEN Some(RegistryToken(b.access_token[1], b.expires_in, b.issued_at))
    ELSE None

\* RegistryToken::bearer_token: format!("Bearer {}", self.access_token)
bearer_token(t) == BearerPrefix \o t.access_token

\* OciEnvelope { errors: Vec<_> } and OciManifest, decoded from JSON
DecodeEnvelope(b) == IF b.json /\ IsSome(b.errors) THEN Some(b.errors[1]) ELSE None
DecodeManifest(b) ==
    IF b.json /\ IsSome(b.schema_version) /\ IsSome(b.layers)
    THEN Some([ schema_version |-> b.schema_version[1], layers |-> b.layers[1] ])
    ELSE None

\* Response::text: the body's text
Text(b) == b.text

\* WwwAuthenticate::parse_header: the challenges, or an error
ParseHeader(w) == IF w.wellformed THEN Some(w.challenges) ELSE None

\* BearerChallenge::challenge_name and BearerChallenge::from_raw
challenge_name == "Bearer"
from_raw(raw) ==
    IF raw.token68 THEN None
    ELSE Some([ realm |-> raw.realm, service |-> raw.service, scope |-> raw.scope ])

\* WwwAuthenticate::get::<BearerChallenge>: None when the header names no
\* challenge of the scheme, else the scheme's challenges that from_raw accepts
IsNamed(c) == c.scheme = challenge_name
IsAccepted(c) == IsSome(from_raw(c.raw))
GetBearer(cs) ==
    LET named == SelectSeq(cs, IsNamed)
        kept  == SelectSeq(named, IsAccepted)
    IN  IF Len(named) = 0 THEN None
        ELSE Some([ i \in 1..Len(kept) |-> from_raw(kept[i].raw)[1] ])

\* the URLs: format!("https://{}/v2/", host), the realm as given, and
\* Reference::to_v2_manifest_url
BaseUrl(host) == <<"https://", host, "/v2/">>
RealmUrl(realm) == <<realm>>
to_v2_manifest_url(image) ==
    <<"https://", image.registry, "/v2/", image.repository, "/manifests/", image.tag>>

\* format!("repository:{}:pull", image.repository())
PullPerms(image) == <<"repository:", image.repository, ":pull">>

Request(url, query, authorization, accept) ==
    [ url |-> url, query |-> query, authorization |-> authorization, accept |-> accept ]

(***************************************************************************)
(* What a call returns.  kind is Ok, Err or Panic (the call unwinds        *)
(* through its caller); err names the failure, type the Rust type behind   *)
(* the failure::Error; text is the format string and code, url, body and   *)
(* entry are the values formatted into it.                                 *)
(***************************************************************************)
Outcome(kind, err, type, text) ==
    [ kind |-> kind, err |-> err, type |-> type, text |-> text,
      code |-> None, url |-> None, body |-> None, entry |-> None,
      version |-> None, manifest |-> None ]

NoResult == Outcome("None", "", "", "")
Pending == Outcome("Pending", "", "", "")
OkUnit == Outcome("Ok", "", "", "")
\* mutant of TransportFailure: the reqwest::Error is turned into a message,
\* as format_err! does
TransportFailureAsMessage ==
    Outcome("Err", "TransportFailure", "failure::ErrorMessage", "failed to authenticate: {}")
TransportFailure == Outcome("Err", "TransportFailure", "reqwest::Error", "")
DecodeFailure == Outcome("Err", "DecodeFailure", "reqwest::Error", "")
Panic(why) == Outcome("Panic", why, "", "")

NoCall == [ op |-> "none", host |-> None, image |-> None ]

NoQuery == [ service |-> None, scope |-> None ]

\* mutant of ProbeRequest: the stored token rides along, as in pull_manifest
ProbeRequestWithToken(host, tok) ==
    Request(BaseUrl(host), NoQuery,
            IF tok = None THEN None ELSE Some(BearerPrefix \o tok[1].access_token),
            None)

\* lines 51-52 and 68-69: a bare GET of the base endpoint; tok is the token
\* store, which these lines do not read
ProbeRequest(host, tok) == Request(BaseUrl(host), NoQuery, None, None)

Init ==
    /\ token = None
    /\ pc = "idle"
    /\ call = NoCall
    /\ sent = << >>
    /\ rcvd = << >>
    /\ result = NoResult
    /\ tokenBefore = None
    /\ granted = {}
    /\ lastGranted = None
    /\ peer = None

\* mutant of ExclusiveBorrow: auth takes &self like the other two
ExclusiveBorrowNever(op) == FALSE

\* the receiver of each method: auth takes &mut self (line 65), version and
\* pull_manifest take &self (lines 50, 115).  The future an async fn returns
\* holds that borrow until the call has returned.
ExclusiveBorrow(op) == op = "auth"

\* the one caller's call in progress holds the Client exclusively
HeldExclusively == pc # "idle" /\ ExclusiveBorrow(call.op)

\* a call begins: nothing sent or received yet.  A &mut borrow needs every
\* other borrow of the Client to have ended
Begin(op, host, image) ==
    /\ pc = "idle"
    /\ ExclusiveBorrow(op) => peer = None
    /\ call' = [ op |-> op, host |-> host, image |-> image ]
    /\ rcvd' = << >>
    /\ tokenBefore' = token

\* a call returns r
Return(r) ==
    /\ result' = r
    /\ pc' = "idle"

(***************************************************************************)
(* Client::version                                                         *)
(***************************************************************************)
\* mutant of VersionResult: only a 200 or a 401 is taken to speak v2
VersionResultChecksStatus(res) ==
    IF res.status \notin {200, 401} \/ res.version = None
    THEN Outcome("Err", "MissingVersionHeader", "failure::ErrorMessage", "no header v2 found")
    ELSE IF ToStr(res.version[1]) = None
    THEN Outcome("Err", "ToStrError", "http::header::ToStrError", "")
    ELSE [ OkUnit EXCEPT !.version = ToStr(res.version[1]) ]

\* lines 53-58, on the response of line 52
VersionResult(res) ==
    IF res.version = None
    THEN Outcome("Err", "MissingVersionHeader", "failure::ErrorMessage", "no header v2 found")
    ELSE IF ToStr(res.version[1]) = None
    THEN Outcome("Err", "ToStrError", "http::header::ToStrError", "")
    ELSE [ OkUnit EXCEPT !.version = ToStr(res.version[1]) ]

\* lines 51-52: the request goes out, the call awaits the response
VersionCall(host) ==
    /\ Begin("version", Some(host), None)
    /\ sent' = << ProbeRequest(host, token) >>
    /\ result' = Pending
    /\ pc' = "version_await"
    /\ UNCHANGED <<peer, token, granted, lastGranted>>

\* line 52: reqwest::get fails
VersionTransportFailure ==
    /\ pc = "version_await"
    /\ Return(TransportFailure)
    /\ UNCHANGED <<peer, token, call, sent, rcvd, tokenBefore, granted, lastGranted>>

VersionReply(res) ==
    /\ pc = "version_await"
    /\ rcvd' = Append(rcvd, res)
    /\ Return(VersionResult(res))
    /\ UNCHANGED <<peer, token, call, sent, tokenBefore, granted, lastGranted>>

(***************************************************************************)
(* Client::auth                                                            *)
(***************************************************************************)
\* lines 85-96: the token request built from the challenge
TokenRequest(image, realm, service) ==
    Request(RealmUrl(realm),
            [ service |-> Some(service), scope |-> Some(PullPerms(image)) ],
            None, None)

Finished(r) == [ done |-> TRUE, result |-> r, request |-> None ]
Continue(req) == [ done |-> FALSE, result |-> Pending, request |-> Some(req) ]

\* mutant of AuthOnChallenges: the last challenge is taken, not the first
AuthOnChallengesLast(image, challenge_opt) ==
    IF Len(challenge_opt) = 0
    THEN Finished(Panic("index out of bounds"))
    ELSE LET challenge == challenge_opt[Len(challenge_opt)]
         IN  IF challenge.realm = None \/ challenge.service = None
             THEN Finished(Panic("unwrap on None"))
             ELSE Continue(TokenRequest(image, challenge.realm[1], challenge.service[1]))

\* lines 86-96, on the challenges auth.get::<BearerChallenge>() returned
AuthOnChallenges(image, challenge_opt) ==
    IF Len(challenge_opt) = 0
    THEN Finished(Panic("index out of bounds"))
    ELSE LET challenge == challenge_opt[1]
         IN  IF challenge.realm = None \/ challenge.service = None
             THEN Finished(Panic("unwrap on None"))
             ELSE Continue(TokenRequest(image, challenge.realm[1], challenge.service[1]))

\* mutant of AuthOnProbe: a header without a Bearer challenge is an error
AuthOnProbeStrict(image, res) ==
    IF res.www = None
    THEN Finished(OkUnit)
    ELSE LET auth == ParseHeader(res.www[1])
         IN  IF auth = None \/ GetBearer(auth[1]) = None
             THEN Finished(Outcome("Err", "MalformedChallenge", "hyperx::Error", ""))
             ELSE AuthOnChallenges(image, GetBearer(auth[1])[1])

\* mutant of AuthOnProbe: a header that does not parse is taken as absent
AuthOnProbeLenient(image, res) ==
    IF res.www = None
    THEN Finished(OkUnit)
    ELSE LET auth == ParseHeader(res.www[1])
         IN  IF auth = None \/ GetBearer(auth[1]) = None
             THEN Finished(OkUnit)
             ELSE AuthOnChallenges(image, GetBearer(auth[1])[1])

\* lines 70-96, on the response of line 69
AuthOnProbe(image, res) ==
    IF res.www = None
    THEN Finished(OkUnit)
    ELSE LET auth == ParseHeader(res.www[1])
         IN  IF auth = None
             THEN Finished(Outcome("Err", "MalformedChallenge", "hyperx::Error", ""))
             ELSE IF GetBearer(auth[1]) = None
             THEN Finished(OkUnit)
             ELSE AuthOnChallenges(image, GetBearer(auth[1])[1])

\* mutant of TokenStatusIsOk: StatusCode::is_success, any 2xx
TokenStatusIsSuccess(s) == 200 <= s /\ s < 300

\* line 98-99: match auth_res.status() { StatusCode::OK => .. }
TokenStatusIsOk(s) == s = StatusOK

\* line 101: self.token = Some(docker_token)
StoreToken(old, docker_token) == Some(docker_token)

\* mutant of AuthRejected: the reason is left out of the message
AuthRejectedNoReason(reason) ==
    Outcome("Err", "AuthRejected", "failure::ErrorMessage", "failed to authenticate")

\* lines 105-106
AuthRejected(reason) ==
    [ Outcome("Err", "AuthRejected", "failure::ErrorMessage", "failed to authenticate: {}")
        EXCEPT !.body = Some(reason) ]

\* mutant of AuthOnToken: a rejected exchange clears the token store
AuthOnTokenClears(old, res) ==
    IF TokenStatusIsOk(res.status)
    THEN IF res.body = None
         THEN [ result |-> TransportFailure, token |-> old ]
         ELSE IF DecodeRegistryToken(res.body[1]) = None
         THEN [ result |-> DecodeFailure, token |-> old ]
         ELSE [ result |-> OkUnit,
                token |-> StoreToken(old, DecodeRegistryToken(res.body[1])[1]) ]
    ELSE IF res.body = None
         THEN [ result |-> TransportFailure, token |-> None ]
         ELSE [ result |-> AuthRejected(Text(res.body[1])), token |-> None ]

\* lines 98-108, on the response of line 96: the result and the token store
AuthOnToken(old, res) ==
    IF TokenStatusIsOk(res.status)
    THEN IF res.body = None
         THEN [ result |-> TransportFailure, token |-> old ]
         ELSE IF DecodeRegistryToken(res.body[1]) = None
         THEN [ result |-> DecodeFailure, token |-> old ]
         ELSE [ result |-> OkUnit,
                token |-> StoreToken(old, DecodeRegistryToken(res.body[1])[1]) ]
    ELSE IF res.body = None
         THEN [ result |-> TransportFailure, token |-> old ]
         ELSE [ result |-> AuthRejected(Text(res.body[1])), token |-> old ]

\* what a 200 response of the token endpoint grants, if its body decodes
Grant(res) ==
    IF res.status = 200 /\ res.body # None
    THEN DecodeRegistryToken(res.body[1])
    ELSE None

\* lines 66-69: the probe goes out, the call awaits the response
AuthCall(image) ==
    /\ Begin("auth", None, Some(image))
    /\ sent' = << ProbeRequest(image.registry, token) >>
    /\ result' = Pending
    /\ pc' = "auth_probe_await"
    /\ UNCHANGED <<peer, token, granted, lastGranted>>

\* line 69: send fails
AuthProbeTransportFailure ==
    /\ pc = "auth_probe_await"
    /\ Return(TransportFailure)
    /\ UNCHANGED <<peer, token, call, sent, rcvd, tokenBefore, granted, lastGranted>>

\* lines 70-96: the probe's response arrives
AuthProbeReply(res) ==
    /\ pc = "auth_probe_await"
    /\ rcvd' = Append(rcvd, res)
    /\ LET step == AuthOnProbe(call.image[1], res)
       IN  IF step.done
           THEN /\ Return(step.result)
                /\ sent' = sent
           ELSE /\ sent' = Append(sent, step.request[1])
                /\ pc' = "auth_token_await"
                /\ result' = result
    /\ UNCHANGED <<peer, token, call, tokenBefore, granted, lastGranted>>

\* line 96: send fails
AuthTokenTransportFailure ==
    /\ pc = "auth_token_await"
    /\ Return(TransportFailure)
    /\ UNCHANGED <<peer, token, call, sent, rcvd, tokenBefore, granted, lastGranted>>

\* lines 98-108: the token endpoint's response arrives
AuthTokenReply(res) ==
    /\ pc = "auth_token_await"
    /\ rcvd' = Append(rcvd, res)
    /\ Return(AuthOnToken(token, res).result)
    /\ token' = AuthOnToken(token, res).token
    /\ granted' = granted \cup Range(Grant(res))
    /\ lastGranted' = IF Grant(res) = None THEN lastGranted ELSE Grant(res)
    /\ UNCHANGED <<peer, call, sent, tokenBefore>>

(***************************************************************************)
(* Client::pull_manifest                                                   *)
(***************************************************************************)
\* lines 123-125: the Authorization header, or the panic of parse().unwrap().
\* None: no header; Some(None): the value does not parse; Some(Some(v)): v
AuthorizationHeader(tok) ==
    IF tok = None THEN None ELSE Some(ParseHeaderValue(bearer_token(tok[1])))

\* mutant of ManifestArm: the first arm takes any 2xx
ManifestArmSuccess(s) ==
    IF 200 <= s /\ s < 300 THEN "ok"
    ELSE IF 400 <= s /\ s < 500 THEN "client"
    ELSE IF 500 <= s /\ s < 600 THEN "server"
    ELSE "other"

\* line 132-141: the arm of the match that a status takes
ManifestArm(s) ==
    IF s = StatusOK THEN "ok"
    ELSE IF 400 <= s /\ s < 500 THEN "client"
    ELSE IF 500 <= s /\ s < 600 THEN "server"
    ELSE "other"

\* line 138: format_err!("{} on {}", err.errors[0], url)
ClientError(errors, url) ==
    IF Len(errors) = 0
    THEN Panic("index out of bounds")
    ELSE [ Outcome("Err", "ClientError", "failure::ErrorMessage", "{} on {}")
             EXCEPT !.entry = Some(errors[1]), !.url = Some(url) ]

\* line 140
ServerError(url) ==
    [ Outcome("Err", "ServerError", "failure::ErrorMessage", "Server error at {}")
        EXCEPT !.url = Some(url) ]

\* mutant of UnexpectedStatus: the body is left out of the message
UnexpectedStatusNoBody(s, url, text) ==
    [ Outcome("Err", "UnexpectedStatus", "failure::ErrorMessage",
              "An unexpected error occured: code={}")
        EXCEPT !.code = Some(s) ]

\* lines 141-145
UnexpectedStatus(s, url, text) ==
    [ Outcome("Err", "UnexpectedStatus", "failure::ErrorMessage",
              "An unexpected error occured: code={}, message='{}'")
        EXCEPT !.code = Some(s), !.body = Some(text) ]

\* mutant of ManifestResult: a 4xx body that is no envelope still gives the
\* client error, without an entry
ManifestResultSwallows(url, res) ==
    CASE ManifestArm(res.status) = "ok" ->
           IF res.body = None THEN TransportFailure
           ELSE IF DecodeManifest(res.body[1]) = None THEN DecodeFailure
           ELSE [ OkUnit EXCEPT !.manifest = DecodeManifest(res.body[1]) ]
      [] ManifestArm(res.status) = "client" ->
           IF res.body = None THEN TransportFailure
           ELSE IF DecodeEnvelope(res.body[1]) = None
           THEN [ Outcome("Err", "ClientError", "failure::ErrorMessage", "{} on {}")
                    EXCEPT !.url = Some(url) ]
           ELSE ClientError(DecodeEnvelope(res.body[1])[1], url)
      [] ManifestArm(res.status) = "server" -> ServerError(url)
      [] OTHER ->
           IF res.body = None THEN TransportFailure
           ELSE UnexpectedStatus(res.status, url, Text(res.body[1]))

\* lines 132-146, on the response of line 127
ManifestResult(url, res) ==
    CASE ManifestArm(res.status) = "ok" ->
           IF res.body = None THEN TransportFailure
           ELSE IF DecodeManifest(res.body[1]) = None THEN DecodeFailure
           ELSE [ OkUnit EXCEPT !.manifest = DecodeManifest(res.body[1]) ]
      [] ManifestArm(res.status) = "client" ->
           IF res.body = None THEN TransportFailure
           ELSE IF DecodeEnvelope(res.body[1]) = None THEN DecodeFailure
           ELSE ClientError(DecodeEnvelope(res.body[1])[1], url)
      [] ManifestArm(res.status) = "server" -> ServerError(url)
      [] OTHER ->
           IF res.body = None THEN TransportFailure
           ELSE UnexpectedStatus(res.status, url, Text(res.body[1]))

\* lines 116-127: the headers are built and the request goes out
PullManifestCall(image) ==
    /\ Begin("pull_manifest", None, Some(image))
    /\ LET authz == AuthorizationHeader(token)
       IN  IF authz # None /\ authz[1] = None
           THEN /\ sent' = << >>
                /\ Return(Panic("unwrap on Err"))
           ELSE /\ sent' = << Request(to_v2_manifest_url(image), NoQuery,
                                      IF authz = None THEN None ELSE authz[1],
                                      Some(AcceptValue)) >>
                /\ result' = Pending
                /\ pc' = "pull_manifest_await"
    /\ UNCHANGED <<peer, token, granted, lastGranted>>

\* line 127: send fails
PullManifestTransportFailure ==
    /\ pc = "pull_manifest_await"
    /\ Return(TransportFailure)
    /\ UNCHANGED <<peer, token, call, sent, rcvd, tokenBefore, granted, lastGranted>>

\* lines 132-146: the response arrives
PullManifestReply(res) ==
    /\ pc = "pull_manifest_await"
    /\ rcvd' = Append(rcvd, res)
    /\ Return(ManifestResult(sent[1].url, res))
    /\ UNCHANGED <<peer, token, call, sent, tokenBefore, granted, lastGranted>>

(***************************************************************************)
(* A second task sharing the Client.  Of its calls only a pull_manifest is *)
(* followed, and of that call only what touches the Client: the borrow it  *)
(* holds from entry to return and its read of the token store.             *)
(***************************************************************************)
\* lines 115-127: &self is borrowed and self.token is read (line 123)
PeerPullManifestCall(image) ==
    /\ peer = None
    /\ ~HeldExclusively
    /\ peer' = Some([ image |-> image, token |-> token ])
    /\ UNCHANGED <<token, pc, call, sent, rcvd, result, tokenBefore, granted, lastGranted>>

\* lines 127-146: the call returns or unwinds, and the borrow ends
PeerPullManifestReturn ==
    /\ peer # None
    /\ peer' = None
    /\ UNCHANGED <<token, pc, call, sent, rcvd, result, tokenBefore, granted, lastGranted>>

Next ==
    \/ \E host \in Hosts : VersionCall(host)
    \/ VersionTransportFailure
    \/ \E res \in VersionResponses : VersionReply(res)
    \/ \E image \in Images : AuthCall(image)
    \/ AuthProbeTransportFailure
    \/ \E res \in ProbeResponses : AuthProbeReply(res)
    \/ AuthTokenTransportFailure
    \/ \E res \in TokenResponses : AuthTokenReply(res)
    \/ \E image \in Images : PullManifestCall(image)
    \/ PullManifestTransportFailure
    \/ \E res \in ManifestResponses : PullManifestReply(res)

Spec == Init /\ [][Next]_vars

\* the responses drawn when two tasks share the Client: headers of one
\* challenge, and one status of each kind
TaskProbeResponses ==
    { res \in ProbeResponses :
        res.status = 401 /\ (res.www # None => Len(res.www[1].challenges) <= 1) }
TaskTokenResponses == { res \in TokenResponses : res.status \in {200, 403} }
TaskManifestResponses == { res \in ManifestResponses : res.status \in {200, 404} }

NextTasks ==
    \/ \E image \in Images : AuthCall(image)
    \/ AuthProbeTransportFailure
    \/ \E res \in TaskProbeResponses : AuthProbeReply(res)
    \/ AuthTokenTransportFailure
    \/ \E res \in TaskTokenResponses : AuthTokenReply(res)
    \/ \E image \in Images : PullManifestCall(image)
    \/ PullManifestTransportFailure
    \/ \E res \in TaskManifestResponses : PullManifestReply(res)
    \/ \E image \in Images : PeerPullManifestCall(image)
    \/ PeerPullManifestReturn

SpecTasks == Init /\ [][NextTasks]_vars

(***************************************************************************)
(* The claims.  A response "whose body arrives" is one with body # None;   *)
(* a failure of the transport while the body is read is not a response     *)
(* body.                                                                   *)
(***************************************************************************)
AuthStarted == call.op = "auth"
PullStarted == call.op = "pull_manifest"
PullAnswered == call.op = "pull_manifest" /\ Len(rcvd) = 1
IsClientStatus(s) == 400 <= s /\ s < 500
IsServerStatus(s) == 500 <= s /\ s < 600

\* the header is absent, or parses and names no challenge of scheme Bearer
NoBearerChallenge(www) ==
    \/ www = None
    \/ /\ www[1].wellformed
       /\ \A i \in 1..Len(www[1].challenges) : www[1].challenges[i].scheme # "Bearer"

\* the Bearer challenges of the header that are in field-list form, in order
BearerFieldLists(www) ==
    IF www = None \/ ~www[1].wellformed THEN << >>
    ELSE SelectSeq(www[1].challenges,
                   LAMBDA c : c.scheme = "Bearer" /\ ~c.raw.token68)

\* C1: in every reachable state the token store is empty or holds a token
\* decoded from the body of a token-endpoint response whose status was 200.
C1_TokenCameFromOk == token = None \/ token[1] \in granted

C1_Witness ==
    /\ AuthStarted /\ pc = "idle" /\ result = OkUnit
    /\ Len(rcvd) = 2 /\ token # None /\ token # tokenBefore

\* C2: when the probe response has no WWW-Authenticate header, or one that
\* holds only non-Bearer challenges, auth returns Ok(()), has sent the probe
\* and nothing else, and leaves the token store as it was.
C2_NoBearerIsSuccess ==
    (AuthStarted /\ Len(rcvd) >= 1 /\ NoBearerChallenge(rcvd[1].www))
        => /\ pc = "idle" /\ result = OkUnit
           /\ Len(sent) = 1 /\ Len(rcvd) = 1
           /\ token = tokenBefore

C2_Witness ==
    /\ AuthStarted /\ Len(rcvd) = 1 /\ result = OkUnit
    /\ rcvd[1].www # None /\ NoBearerChallenge(rcvd[1].www)
    /\ rcvd[1].status = 401

\* C3: when the Bearer challenge of the probe response lacks realm or lacks
\* service, auth returns an Err to its caller (it does not panic), has sent
\* no token request and leaves the token store as it was.
C3_IncompleteChallengeIsErr ==
    (/\ AuthStarted /\ Len(rcvd) >= 1
     /\ Len(BearerFieldLists(rcvd[1].www)) > 0
     /\ \/ BearerFieldLists(rcvd[1].www)[1].raw.realm = None
        \/ BearerFieldLists(rcvd[1].www)[1].raw.service = None)
        => /\ pc = "idle" /\ result.kind = "Err"
           /\ Len(sent) = 1
           /\ token = tokenBefore

\* C4: once a 200 token response carrying access_token t has been stored,
\* every later pull_manifest sends one request whose Authorization header is
\* "Bearer " followed by t, whatever the token store held before.
C4_LaterPullSendsBearer ==
    (PullStarted /\ lastGranted # None)
        => /\ Len(sent) = 1
           /\ sent[1].authorization = Some(BearerPrefix \o lastGranted[1].access_token)

\* C5: for every token-endpoint response whose status is not 200 and whose
\* body arrives, auth returns the AuthRejected error whose message holds the
\* body's text, and the token store is as it was before the call.
C5_RejectedCarriesBody ==
    (AuthStarted /\ Len(rcvd) = 2 /\ rcvd[2].status # 200 /\ rcvd[2].body # None)
        => /\ pc = "idle"
           /\ result.kind = "Err" /\ result.err = "AuthRejected"
           /\ result.body = Some(rcvd[2].body[1].text)
           /\ token = tokenBefore

C5_Witness ==
    /\ AuthStarted /\ Len(rcvd) = 2 /\ rcvd[2].status = 201
    /\ rcvd[2].body # None /\ rcvd[2].body[1].access_token # None
    /\ tokenBefore # None /\ result.err = "AuthRejected"

\* C6: a pull_manifest call sends an Authorization header if and only if the
\* token store holds a token when the call is made.
C6_AuthorizationIffToken ==
    PullStarted
        => ((\E i \in 1..Len(sent) : sent[i].authorization # None) <=> tokenBefore # None)

\* C7: for every manifest response with a 4xx status whose body parses as an
\* error envelope, pull_manifest returns the ClientError naming the request
\* URL and the first entry of the envelope, also when the list is empty.
C7_EnvelopeIsClientError ==
    (/\ PullAnswered /\ IsClientStatus(rcvd[1].status)
     /\ rcvd[1].body # None /\ rcvd[1].body[1].json /\ rcvd[1].body[1].errors # None)
        => /\ result.kind = "Err" /\ result.err = "ClientError"
           /\ result.url = Some(sent[1].url)
           /\ Len(rcvd[1].body[1].errors[1]) > 0
                => result.entry = Some(rcvd[1].body[1].errors[1][1])

\* C8: pull_manifest puts every status of a response whose body arrives in
\* one class: 200 gives the decoded manifest or a decode failure; a 4xx gives
\* an outcome of the client-error arm; a 5xx gives the ServerError naming the
\* URL, the same for every body; any other status gives UnexpectedStatus;
\* and only a 200 gives Ok.
C8_StatusClasses ==
    PullAnswered =>
        LET s == rcvd[1].status
            b == rcvd[1].body
        IN  /\ (s = 200 /\ b # None) =>
                  \/ /\ result.kind = "Ok" /\ b[1].json
                     /\ result.manifest =
                          Some([ schema_version |-> b[1].schema_version[1],
                                 layers |-> b[1].layers[1] ])
                  \/ result = DecodeFailure
            /\ (IsClientStatus(s) /\ b # None) =>
                  result.err \in {"ClientError", "DecodeFailure", "index out of bounds"}
            /\ IsServerStatus(s) =>
                  /\ result.kind = "Err" /\ result.err = "ServerError"
                  /\ result.url = Some(sent[1].url)
                  /\ result.body = None /\ result.entry = None /\ result.code = None
            /\ (s # 200 /\ ~IsClientStatus(s) /\ ~IsServerStatus(s) /\ b # None) =>
                  result.kind = "Err" /\ result.err = "UnexpectedStatus"
            /\ result.kind = "Ok" => s = 200

C8_Witness ==
    /\ PullAnswered /\ rcvd[1].status = 201 /\ rcvd[1].body # None
    /\ rcvd[1].body[1].schema_version # None /\ rcvd[1].body[1].layers # None
    /\ result.err = "UnexpectedStatus"

\* C9 as claimed: an UnexpectedStatus error carries the status code, the
\* request URL and the raw response body.
C9_UnexpectedCarriesCodeUrlBody ==
    (PullAnswered /\ result.err = "UnexpectedStatus")
        => /\ result.code = Some(rcvd[1].status)
           /\ result.url = Some(sent[1].url)
           /\ result.body = Some(rcvd[1].body[1].text)

\* C9 as amended: an UnexpectedStatus error carries the status code and the
\* raw response body, and does not carry the request URL.
C9_UnexpectedCarriesCodeBody ==
    (PullAnswered /\ result.err = "UnexpectedStatus")
        => /\ result.code = Some(rcvd[1].status)
           /\ result.body = Some(rcvd[1].body[1].text)
           /\ result.url = None

C9_Witness ==
    /\ PullAnswered /\ result.err = "UnexpectedStatus"
    /\ rcvd[1].status = 301 /\ rcvd[1].body[1].text = "not json"

C11_ProbeIsAnonymous ==
    /\ call.op = "version" =>
          \A i \in 1..Len(sent) : sent[i].authorization = None
    /\ (AuthStarted /\ Len(sent) >= 1) => sent[1].authorization = None

C11_Witness ==
    /\ call.op = "version" /\ Len(sent) = 1 /\ token # None
    /\ sent[1].url = <<"https://", call.host[1], "/v2/">>

C13_TransportEndsAuth ==
    (/\ AuthStarted /\ pc = "idle"
     /\ \/ Len(rcvd) < Len(sent)
        \/ Len(rcvd) = 2 /\ rcvd[2].body = None)
        => /\ result.kind = "Err" /\ result.err = "TransportFailure"
           /\ result.type = "reqwest::Error"
           /\ result.type # AuthRejected("").type
           /\ Len(sent) <= 2 /\ Len(sent) <= Len(rcvd) + 1
           /\ token = tokenBefore

C13_Witness ==
    /\ AuthStarted /\ pc = "idle" /\ Len(rcvd) = 2
    /\ rcvd[2].status = 403 /\ rcvd[2].body = None
    /\ result.err = "TransportFailure"

\* the header parses, names a Bearer challenge, and every Bearer challenge it
\* names is in token68 form
OnlyToken68Bearer(www) ==
    /\ www # None /\ www[1].wellformed
    /\ \E i \in 1..Len(www[1].challenges) : www[1].challenges[i].scheme = "Bearer"
    /\ \A i \in 1..Len(www[1].challenges) :
          www[1].challenges[i].scheme = "Bearer" => www[1].challenges[i].raw.token68

\* C14: when the only Bearer entries of the WWW-Authenticate header are in
\* token68 form, auth behaves as for a header without a Bearer challenge: it
\* returns Ok(()), sends no token request and leaves the token store alone.
C14_Token68IsAbsent ==
    (AuthStarted /\ Len(rcvd) >= 1 /\ OnlyToken68Bearer(rcvd[1].www))
        => /\ pc = "idle" /\ result = OkUnit
           /\ Len(sent) = 1
           /\ token = tokenBefore

\* C15: when the WWW-Authenticate header is present and does not parse, auth
\* returns the MalformedChallenge error, never Ok, and sends no token request.
C15_MalformedHeaderIsErr ==
    (AuthStarted /\ Len(rcvd) >= 1 /\ rcvd[1].www # None /\ ~rcvd[1].www[1].wellformed)
        => /\ pc = "idle"
           /\ result.kind = "Err" /\ result.err = "MalformedChallenge"
           /\ Len(sent) = 1 /\ Len(rcvd) = 1
           /\ token = tokenBefore

C15_Witness ==
    /\ AuthStarted /\ Len(rcvd) = 1 /\ rcvd[1].www # None
    /\ ~rcvd[1].www[1].wellformed /\ result.err = "MalformedChallenge"
    /\ tokenBefore # None

\* C16: no call retries or refreshes.  A version call sends exactly one
\* request, to the base endpoint; a pull_manifest call sends exactly one
\* request, to the manifest URL, whatever the stored token and the response;
\* an auth call sends the probe and at most one token request; a call that
\* has failed has ended.
C16_NoRetry ==
    /\ call.op = "version" =>
          /\ Len(sent) = 1
          /\ sent[1].url = <<"https://", call.host[1], "/v2/">>
    /\ PullStarted =>
          /\ Len(sent) = 1
          /\ sent[1].url = <<"https://", call.image[1].registry, "/v2/",
                             call.image[1].repository, "/manifests/", call.image[1].tag>>
          /\ sent[1].query = NoQuery
    /\ AuthStarted =>
          /\ Len(sent) \in {1, 2}
          /\ sent[1].url = <<"https://", call.image[1].registry, "/v2/">>
          /\ Len(sent) = 2 => sent[2].query.service # None
    /\ result.kind \in {"Err", "Panic"} => pc = "idle"

\* C17: when the manifest response has a 4xx status and its body arrives but
\* is no error envelope, pull_manifest returns the decode failure, an error
\* of another type than the ClientError; it reports neither ClientError,
\* ServerError, UnexpectedStatus nor success.
C17_BadEnvelopeIsDecodeFailure ==
    (/\ PullAnswered /\ IsClientStatus(rcvd[1].status) /\ rcvd[1].body # None
     /\ ~(rcvd[1].body[1].json /\ rcvd[1].body[1].errors # None))
        => /\ result.kind = "Err" /\ result.err = "DecodeFailure"
           /\ result.type = "reqwest::Error"
           /\ result.type # ClientError(<<"MANIFEST_UNKNOWN">>, sent[1].url).type

C17_Witness ==
    /\ PullAnswered /\ rcvd[1].status = 404 /\ rcvd[1].body # None
    /\ rcvd[1].body[1].text = "not json" /\ result.err = "DecodeFailure"

AuthInProgress == AuthStarted /\ pc # "idle"

\* C18 as claimed: the core does not synchronize auth and pull_manifest on
\* one Client: while an auth call is in progress, a pull_manifest of another
\* task on that Client can begin and read the token store.
C18_PullCanBeginDuringAuth ==
    (AuthInProgress /\ peer = None)
        => ENABLED (\E image \in Images : PeerPullManifestCall(image))

\* C18 as amended: auth and pull_manifest on one Client never overlap: while
\* a pull_manifest of another task is in progress no auth call is, so the
\* token that pull_manifest read is still the one stored; calls that take
\* &self may overlap one another.
C18_AuthExcludesPull ==
    peer # None => (~AuthInProgress /\ peer[1].token = token)

C18_Witness ==
    /\ peer # None /\ pc = "pull_manifest_await"
    /\ token # None /\ peer[1].image # call.image[1]

IsComplete(c) == c.raw.realm # None /\ c.raw.service # None

\* the token request auth is to send for challenge c: to c's realm, with
\* c's service and the pull scope of the image's repository, no credential
ExpectedTokenRequest(c) ==
    [ url |-> <<c.raw.realm[1]>>,
      query |-> [ service |-> c.raw.service,
                  scope |-> Some(<<"repository:", call.image[1].repository, ":pull">>) ],
      authorization |-> None,
      accept |-> None ]

\* C19 as claimed: in an auth call whose probe was answered, a token request
\* is sent if and only if the header parses and holds a Bearer challenge with
\* both realm and service, whatever the probe's status; it follows the probe,
\* goes to that challenge's realm with its service and carries the scope
\* repository:{repository}:pull.
C19_RequestIffSomeCompleteBearer ==
    (AuthStarted /\ Len(rcvd) >= 1) =>
        LET bs == BearerFieldLists(rcvd[1].www)
            complete == SelectSeq(bs, IsComplete)
        IN  /\ Len(sent) = 2 <=> Len(complete) > 0
            /\ Len(sent) = 2 => sent[2] = ExpectedTokenRequest(complete[1])

\* C19 as amended: the same, with the challenge being the first Bearer
\* challenge of the header that is in field-list form: the request is sent if
\* and only if that one has both realm and service.
C19_RequestIffFirstBearerComplete ==
    (AuthStarted /\ Len(rcvd) >= 1) =>
        LET bs == BearerFieldLists(rcvd[1].www)
        IN  /\ Len(sent) = 2 <=> (Len(bs) > 0 /\ IsComplete(bs[1]))
            /\ Len(sent) = 2 =>
                  /\ sent[1].url = <<"https://", call.image[1].registry, "/v2/">>
                  /\ sent[2] = ExpectedTokenRequest(bs[1])

C19_Witness ==
    /\ AuthStarted /\ Len(sent) = 2 /\ rcvd[1].status = 200
    /\ Len(BearerFieldLists(rcvd[1].www)) = 2
    /\ BearerFieldLists(rcvd[1].www)[1].raw.scope = Some("repository:x:push")
    /\ BearerFieldLists(rcvd[1].www)[2].raw.realm = Some("https://auth.b.io/token")

\* an auth call for its image's registry has just returned Ok with a token
\* obtained from that registry's 200 token response
AuthJustSucceeded ==
    /\ AuthStarted /\ pc = "idle" /\ result = OkUnit
    /\ Len(rcvd) = 2 /\ rcvd[2].status = 200 /\ token # None

\* C20: the token slot is not bound to a registry: when auth has succeeded
\* for an image of registry A and pull_manifest is then called for an image
\* of another registry B, the call sends its request to B's host with the
\* token obtained for A in the Authorization header.
C20_TokenGoesToOtherRegistry ==
    [][ (/\ AuthJustSucceeded
         /\ call'.op = "pull_manifest"
         /\ call'.image[1].registry # call.image[1].registry)
          => /\ Len(sent') = 1
             /\ sent'[1].url[2] = call'.image[1].registry
             /\ sent'[1].authorization = Some(BearerPrefix \o token[1].access_token) ]_vars
====
